---- MODULE Spec2Model ----
(***************************************************************************)
(* The daemon supervisor of deepstream.io-service (start() and its         *)
(* closures monitor(), launch(), the child 'exit' handler, the process     *)
(* 'exit' hook and the signal handlers).                                   *)
(*                                                                         *)
(* Time.  The code reads the clock only as Date.now() - startTime and as   *)
(* timer delays, so the model keeps time relative: sinceStart is           *)
(* Date.now() - startTime while startTime is set, and every pending timer  *)
(* carries the milliseconds left until it is due.  Tick lets time pass but *)
(* never beyond the moment a pending timer is due; a due timer and a       *)
(* pending child 'exit' event of the same millisecond run in either order, *)
(* as they do on the event loop.                                           *)
(***************************************************************************)
EXTENDS Integers, Sequences, FiniteSets, TLC

\* ---------------------------------------------------------------- bounds
MaxLaunches == 3      \* children spawned in one run of the model
MaxFine == 1          \* single-millisecond ticks taken from the start of a window

\* ------------------------------------------------------- program constants
max == 6              \* const max = 6 (seconds)
NullTime == 0 - 1     \* startTime === null
InitialWait == 1      \* let wait = 1

RestartFailureCode == 1   \* process.exit(1) of the restart guard
DefaultExitCode == 0      \* process.exit() with process.exitCode unset

WindowMs == max * 1000
WindowTimerMs == (max * 1000) + 1

\* ------------------------------------------------------------ input sets
ExitCodes == {0, 2}
\* options.growPercentage as a fraction n/d (0.25 is the default)
GrowChoices == {[n |-> 1, d |-> 4], [n |-> 2, d |-> 1]}
\* options.restartDelay (seconds in the code: restartDelay * 1000)
RestartDelayChoices == {1, 100}
MaxRetriesChoices == {0, 2, 10}
\* options.maxRestarts: hasMaxRestarts = FALSE is "not configured"
MaxRestartsChoices == {[has |-> FALSE, val |-> 0], [has |-> TRUE, val |-> 0 - 1],
                       [has |-> TRUE, val |-> 0], [has |-> TRUE, val |-> 1]}

VARIABLES
    options,        \* the merged options object
    startTime,      \* NullTime, or Date.now() - startTime (age of the window)
    attempts,
    starts,
    child,          \* index into children of the current child, 0 = null
    wait,           \* the fraction [n, d], in milliseconds
    children,       \* every ChildProcess object created so far
    windowTimers,   \* ms left of each pending window-reset timer
    relaunchTimers, \* ms left of each pending relaunch timer
    phase,          \* "starting", "running", "terminated"
    exitCode,       \* the supervisor's exit status once terminated
    exitReason,     \* which path ended the supervisor
    logged,         \* a diagnostic was written by console.error
    signalled,      \* a SIGTERM/SIGHUP/SIGINT handler has run
    sigRunning,     \* ... while the current child process was running
    monitorRuns,    \* calls of monitor()
    delays          \* the delay of every relaunch timer armed, in order

vars == <<options, startTime, attempts, starts, child, wait, children,
          windowTimers, relaunchTimers, phase, exitCode, exitReason, logged,
          signalled, sigRunning, monitorRuns, delays>>

\* ------------------------------------------------------------- helpers
\* a ChildProcess object as spawn() returns it (line 63) with the 'exit'
\* listener of line 77 attached
NewChild == [state |-> "running", pid |-> TRUE, listening |-> TRUE,
             killed |-> FALSE, code |-> 0 - 1, seen |-> 0]

\* child.removeAllListeners('exit')
RemoveAllListenersKept(c) == c
RemoveAllListeners(c) == [c EXCEPT !.listening = FALSE]

\* child.kill(): the signal reaches the process only while it runs
Kill(c) == IF c.state = "running" THEN [c EXCEPT !.killed = TRUE] ELSE c

\* the body shared by the SIGTERM, SIGHUP and SIGINT handlers, and the
\* process 'exit' hook: detach the listener of the current child, kill it
DetachAndKill(chs) ==
    IF child = 0 THEN chs
    ELSE [chs EXCEPT ![child] = Kill(RemoveAllListeners(@))]

\* setTimeout(fn, wait): a delay below 1 ms is raised to 1 ms
TimerDelay(w) == IF w.n < w.d THEN 1 ELSE w.n \div w.d

\* wait * options.growPercentage
Grow(w) == [n |-> w.n * options.growPercentage.n,
            d |-> w.d * options.growPercentage.d]

\* a setTimeout timer is one-shot: firing removes it
RemoveAt(ts, i) == [j \in 1..(Len(ts) - 1) |-> IF j < i THEN ts[j] ELSE ts[j + 1]]
TimersAfterFireRepeating(ts, i, again) == [ts EXCEPT ![i] = again]
TimersAfterFire(ts, i, again) == RemoveAt(ts, i)

\* code !== 0 && options.exitOnError (line 79)
ExitOnErrorFiresNever(code) == FALSE
ExitOnErrorFires(code) == code # 0 /\ options.exitOnError

\* attempts > options.maxRestarts && options.maxRestarts >= 0 (line 32);
\* an unset maxRestarts compares false
CapExceededLate(a) ==
    /\ options.maxRestarts.has
    /\ a > options.maxRestarts.val + 1
    /\ options.maxRestarts.val >= 0
CapExceededEarly(a) ==
    /\ options.maxRestarts.has
    /\ a >= options.maxRestarts.val
    /\ options.maxRestarts.val >= 0
CapExceededUnsigned(a) ==
    /\ options.maxRestarts.has
    /\ a > options.maxRestarts.val
CapExceeded(a) ==
    /\ options.maxRestarts.has
    /\ a > options.maxRestarts.val
    /\ options.maxRestarts.val >= 0

\* (Date.now() - (max * 1000) - startTime) > 0 (line 21); a null startTime
\* counts as 0 in the subtraction, and Date.now() alone exceeds max * 1000
WindowElapsedInclusive ==
    IF startTime = NullTime THEN TRUE ELSE startTime - (max * 1000) >= 0
WindowElapsed ==
    IF startTime = NullTime THEN TRUE ELSE startTime - (max * 1000) > 0

\* lines 20-21
TooManyRestarts == starts >= options.maxRetries /\ WindowElapsed

\* delete child.pid (line 84): the pid of the current child
DeletePidSkipped(chs) == chs
DeletePid(chs) == [chs EXCEPT ![child].pid = FALSE]

\* process.on('exit'), lines 90-95
ExitHookMissing(chs) == chs
ExitHook(chs) == DetachAndKill(chs)

\* ------------------------------------------------------------ operations
\* process.exit(code): the 'exit' hook runs, the process ends
Terminate(code, reason, log, chs) ==
    /\ phase' = "terminated"
    /\ exitCode' = code
    /\ exitReason' = reason
    /\ logged' = log
    /\ children' = ExitHook(chs)

\* launch(), lines 51-88
LaunchAlwaysArms ==
    /\ startTime' = IF startTime = NullTime THEN 0 ELSE startTime
    /\ windowTimers' = Append(windowTimers, WindowTimerMs)
    /\ starts' = starts + 1
    /\ children' = Append(children, NewChild)
    /\ child' = Len(children) + 1
LaunchCountsFromOne ==
    /\ IF startTime = NullTime
       THEN /\ startTime' = 0
            /\ windowTimers' = Append(windowTimers, WindowTimerMs)
            /\ starts' = 1
       ELSE UNCHANGED <<startTime, windowTimers, starts>>
    /\ children' = Append(children, NewChild)
    /\ child' = Len(children) + 1
Launch ==
    /\ IF startTime = NullTime
       THEN /\ startTime' = 0
            /\ windowTimers' = Append(windowTimers, WindowTimerMs)
       ELSE UNCHANGED <<startTime, windowTimers>>
    /\ starts' = starts + 1
    /\ children' = Append(children, NewChild)
    /\ child' = Len(children) + 1

\* monitor(), lines 16-45, run on the children as the exit handler left them
Monitor(chs) ==
    /\ monitorRuns' = monitorRuns + 1
    /\ IF ~chs[child].pid
       THEN IF TooManyRestarts
            THEN /\ Terminate(RestartFailureCode, "storm", TRUE, chs)
                 /\ UNCHANGED <<relaunchTimers, delays, attempts, wait>>
            ELSE /\ relaunchTimers' = Append(relaunchTimers, TimerDelay(wait))
                 /\ delays' = Append(delays, wait)
                 /\ children' = chs
                 /\ UNCHANGED <<phase, exitCode, exitReason, logged, attempts, wait>>
       ELSE /\ attempts' = 0
            /\ wait' = [n |-> options.restartDelay * 1000, d |-> 1]
            /\ children' = chs
            /\ UNCHANGED <<phase, exitCode, exitReason, logged, relaunchTimers, delays>>

Init ==
    /\ options \in [exitOnError : BOOLEAN, growPercentage : GrowChoices,
                    maxRetries : MaxRetriesChoices, restartDelay : RestartDelayChoices,
                    maxRestarts : MaxRestartsChoices]
    /\ startTime = NullTime
    /\ attempts = 0
    /\ starts = 0
    /\ child = 0
    /\ wait = [n |-> InitialWait, d |-> 1]
    /\ children = <<>>
    /\ windowTimers = <<>>
    /\ relaunchTimers = <<>>
    /\ phase = "starting"
    /\ exitCode = 0 - 1
    /\ exitReason = "none"
    /\ logged = FALSE
    /\ signalled = FALSE
    /\ sigRunning = FALSE
    /\ monitorRuns = 0
    /\ delays = <<>>

\* start(): the handlers are registered and launch() is called (line 112)
Start ==
    /\ phase = "starting"
    /\ phase' = "running"
    /\ Launch
    /\ UNCHANGED <<options, attempts, wait, relaunchTimers, exitCode, exitReason,
                   logged, signalled, sigRunning, monitorRuns, delays>>

\* the child process ends, by itself or by the signal it was sent; the last
\* child the model spawns ends only when killed
ChildDie(i, code) ==
    /\ phase = "running"
    /\ i \in 1..Len(children)
    /\ children[i].state = "running"
    /\ (Len(children) < MaxLaunches \/ children[i].killed)
    /\ children' = [children EXCEPT ![i].state = "exited", ![i].code = code]
    /\ UNCHANGED <<options, startTime, attempts, starts, child, wait, windowTimers,
                   relaunchTimers, phase, exitCode, exitReason, logged, signalled,
                   sigRunning, monitorRuns, delays>>

\* the 'exit' event of child i is emitted; lines 77-87 run if still attached
ChildExit(i) ==
    /\ phase = "running"
    /\ i \in 1..Len(children)
    /\ children[i].state = "exited"
    /\ IF children[i].listening
       THEN LET seenChs == [children EXCEPT ![i].state = "reaped", ![i].seen = @ + 1]
            IN IF ExitOnErrorFires(children[i].code)
               THEN /\ Terminate(DefaultExitCode, "exitOnError", TRUE, seenChs)
                    /\ UNCHANGED <<attempts, wait, relaunchTimers, monitorRuns, delays>>
               ELSE Monitor(DeletePid(seenChs))
       ELSE /\ children' = [children EXCEPT ![i].state = "reaped"]
            /\ UNCHANGED <<attempts, wait, relaunchTimers, monitorRuns, delays,
                           phase, exitCode, exitReason, logged>>
    /\ UNCHANGED <<options, startTime, starts, child, windowTimers, signalled, sigRunning>>

\* the relaunch timer of lines 29-40 fires
RelaunchTimer(i) ==
    /\ phase = "running"
    /\ i \in 1..Len(relaunchTimers)
    /\ relaunchTimers[i] = 0
    /\ relaunchTimers' = TimersAfterFire(relaunchTimers, i, TimerDelay(wait))
    /\ wait' = Grow(wait)
    /\ attempts' = attempts + 1
    /\ IF CapExceeded(attempts + 1)
       THEN /\ Terminate(DefaultExitCode, "cap", TRUE, children)
            /\ UNCHANGED <<startTime, starts, child, windowTimers>>
       ELSE /\ Len(children) < MaxLaunches
            /\ Launch
            /\ UNCHANGED <<phase, exitCode, exitReason, logged>>
    /\ UNCHANGED <<options, signalled, sigRunning, monitorRuns, delays>>

\* the window-reset timer of lines 55-58 fires
WindowTimerKeepsStarts(i) ==
    /\ phase = "running"
    /\ i \in 1..Len(windowTimers)
    /\ windowTimers[i] = 0
    /\ windowTimers' = RemoveAt(windowTimers, i)
    /\ startTime' = NullTime
    /\ UNCHANGED <<options, attempts, starts, child, wait, children, relaunchTimers,
                   phase, exitCode, exitReason, logged, signalled, sigRunning,
                   monitorRuns, delays>>
WindowTimer(i) ==
    /\ phase = "running"
    /\ i \in 1..Len(windowTimers)
    /\ windowTimers[i] = 0
    /\ windowTimers' = RemoveAt(windowTimers, i)
    /\ startTime' = NullTime
    /\ starts' = 0
    /\ UNCHANGED <<options, attempts, child, wait, children, relaunchTimers, phase,
                   exitCode, exitReason, logged, signalled, sigRunning, monitorRuns,
                   delays>>

\* process.on('SIGTERM' | 'SIGHUP' | 'SIGINT'), lines 97-110
Signal(sig) ==
    /\ phase = "running"
    /\ children' = DetachAndKill(children)
    /\ signalled' = TRUE
    /\ sigRunning' = (sigRunning \/ children[child].state = "running")
    /\ UNCHANGED <<options, startTime, attempts, starts, child, wait, windowTimers,
                   relaunchTimers, phase, exitCode, exitReason, logged, monitorRuns,
                   delays>>

\* nothing is left on the event loop (no timer, no child handle): the
\* process ends by itself with status 0, running the 'exit' hook
LoopDrain ==
    /\ phase = "running"
    /\ windowTimers = <<>>
    /\ relaunchTimers = <<>>
    /\ \A i \in 1..Len(children) : children[i].state = "reaped"
    /\ Terminate(DefaultExitCode, "drain", FALSE, children)
    /\ UNCHANGED <<options, startTime, attempts, starts, child, wait, windowTimers,
                   relaunchTimers, signalled, sigRunning, monitorRuns, delays>>

\* ms left until the next pending timer is due
Pending == {windowTimers[i] : i \in 1..Len(windowTimers)}
               \cup {relaunchTimers[i] : i \in 1..Len(relaunchTimers)}

\* the amounts of time Tick lets pass: up to a due timer, up to the last
\* millisecond of the window, or one millisecond early in a window
TickSteps ==
    {d \in Pending \cup {WindowMs - startTime} : d >= 1}
        \cup (IF startTime # NullTime /\ startTime < MaxFine THEN {1} ELSE {})

\* d milliseconds pass
Tick(d) ==
    /\ phase = "running"
    /\ Pending # {}
    /\ \A t \in Pending : d <= t
    /\ windowTimers' = [j \in 1..Len(windowTimers) |-> windowTimers[j] - d]
    /\ relaunchTimers' = [j \in 1..Len(relaunchTimers) |-> relaunchTimers[j] - d]
    /\ startTime' = IF startTime = NullTime THEN NullTime ELSE startTime + d
    /\ UNCHANGED <<options, attempts, starts, child, wait, children, phase, exitCode,
                   exitReason, logged, signalled, sigRunning, monitorRuns, delays>>

Next ==
    \/ Start
    \/ \E i \in 1..Len(children) : \E code \in ExitCodes : ChildDie(i, code)
    \/ \E i \in 1..Len(children) : ChildExit(i)
    \/ \E i \in 1..Len(relaunchTimers) : RelaunchTimer(i)
    \/ \E i \in 1..Len(windowTimers) : WindowTimer(i)
    \/ \E sig \in {"SIGTERM", "SIGHUP", "SIGINT"} : Signal(sig)
    \/ LoopDrain
    \/ \E d \in TickSteps : Tick(d)

Spec == Init /\ [][Next]_vars

TypeOK ==
    /\ phase \in {"starting", "running", "terminated"}
    /\ attempts \in 0..(MaxLaunches + 1)
    /\ starts \in 0..MaxLaunches
    /\ child \in 0..MaxLaunches
    /\ Len(children) <= MaxLaunches
    /\ startTime \in {NullTime} \cup 0..WindowTimerMs

\* ---------------------------------------------------- other specifications
\* Scheduling the event loop guarantees: a due timer fires, time passes, an
\* emitted 'exit' event is delivered, a killed child dies, and a process with
\* an empty event loop ends.  Nothing makes a healthy child exit or a signal
\* arrive.
LoopFairness ==
    /\ WF_vars(\E i \in 1..MaxLaunches : ChildExit(i))
    /\ WF_vars(\E i \in 1..MaxLaunches : RelaunchTimer(i))
    /\ WF_vars(\E i \in 1..MaxLaunches : WindowTimer(i))
    /\ WF_vars(\E d \in TickSteps : Tick(d))
    /\ WF_vars(LoopDrain)

KilledChildDies ==
    \E i \in 1..MaxLaunches : \E code \in ExitCodes :
        i <= Len(children) /\ children[i].killed /\ ChildDie(i, code)

FairSpec == Init /\ [][Next]_vars /\ WF_vars(Start) /\ LoopFairness /\ WF_vars(KilledChildDies)

\* a supervisor that receives no signal, with a child that always exits
NextUnsignalled ==
    \/ Start
    \/ \E i \in 1..Len(children) : \E code \in ExitCodes : ChildDie(i, code)
    \/ \E i \in 1..Len(children) : ChildExit(i)
    \/ \E i \in 1..Len(relaunchTimers) : RelaunchTimer(i)
    \/ \E i \in 1..Len(windowTimers) : WindowTimer(i)
    \/ \E d \in TickSteps : Tick(d)

ExitingChildSpec ==
    /\ Init /\ [][NextUnsignalled]_vars
    /\ WF_vars(Start)
    /\ WF_vars(\E i \in 1..MaxLaunches : ChildExit(i))
    /\ WF_vars(\E i \in 1..MaxLaunches : RelaunchTimer(i))
    /\ WF_vars(\E i \in 1..MaxLaunches : WindowTimer(i))
    /\ WF_vars(\E d \in TickSteps : Tick(d))
    /\ WF_vars(\E i \in 1..MaxLaunches : \E code \in ExitCodes : ChildDie(i, code))

\* ------------------------------------------------------------------ claims
Launches == Len(children)
Relaunches == Len(children) - 1
LifetimeCap == options.maxRestarts.has /\ options.maxRestarts.val >= 0
Running == {i \in 1..Len(children) : children[i].state = "running"}

\* C1: with maxRestarts = N >= 0 the number of relaunches (launches after the
\* first) never exceeds N.
C1_RelaunchesWithinCap == LifetimeCap => Relaunches <= options.maxRestarts.val

C1_Witness ==
    /\ options.maxRestarts = [has |-> TRUE, val |-> 1]
    /\ Relaunches = 1
    /\ exitReason = "cap"

\* C2: with exitOnError, once the exit handler has seen a non-zero exit code
\* the supervisor has terminated in that handler: the pid of the child is
\* still there, monitor() did not run for it, no relaunch timer is pending
\* and it is the last child ever launched.
C2_ExitOnErrorIsFinal ==
    \A i \in 1..Len(children) :
        (options.exitOnError /\ children[i].seen > 0 /\ children[i].code # 0)
            => /\ phase = "terminated"
               /\ exitReason = "exitOnError"
               /\ i = Len(children)
               /\ child = i
               /\ children[i].pid
               /\ relaunchTimers = <<>>
               /\ monitorRuns = i - 1

C2_Witness ==
    /\ options.exitOnError
    /\ exitReason = "exitOnError"
    /\ children[child].seen = 1
    /\ children[child].code = 2

\* C3: when exitOnError ends the supervisor, its exit status is non-zero.
C3_ExitOnErrorStatusNonZero == exitReason = "exitOnError" => exitCode # 0

\* C4: no window contains more than maxRetries launches (for a cap of at
\* least one launch).
C4_WindowHoldsAtMostMaxRetries ==
    options.maxRetries >= 1 => starts <= options.maxRetries

RECURSIVE Pow(_, _)
Pow(b, e) == IF e = 0 THEN 1 ELSE b * Pow(b, e - 1)

\* C5: the delay armed before the k-th relaunch is
\* restartDelay * growPercentage^(k-1) milliseconds.
C5_DelayIsBaseTimesGrowth ==
    \A k \in 1..Len(delays) :
        delays[k].n * Pow(options.growPercentage.d, k - 1)
            = options.restartDelay * Pow(options.growPercentage.n, k - 1) * delays[k].d

\* C6: with exitOnError off, maxRestarts = N >= 0 and a window cap above
\* N + 1, a child that always exits is launched exactly N + 1 times and the
\* supervisor then ends with status 0 after logging the exceeded cap.
C6_StopsAfterCapWithStatusZero ==
    (~options.exitOnError /\ LifetimeCap
        /\ options.maxRetries > options.maxRestarts.val + 1)
    => <>(/\ phase = "terminated"
          /\ exitReason = "cap"
          /\ exitCode = 0
          /\ logged
          /\ Launches = options.maxRestarts.val + 1)

C6_Witness ==
    /\ ~options.exitOnError
    /\ options.maxRestarts = [has |-> TRUE, val |-> 1]
    /\ options.maxRetries = 10
    /\ phase = "terminated"
    /\ exitCode = 0
    /\ logged
    /\ Launches = 2

\* C7: after a signal that arrived while the child was running, the exit
\* listener of that child is detached and the child was sent the kill; from
\* then on no relaunch timer is armed and launch() is not called.
C7_SignalWhileRunningStopsRelaunch ==
    /\ [](sigRunning => (~children[child].listening /\ children[child].killed))
    /\ [][sigRunning => (Len(children') = Len(children) /\ relaunchTimers' = <<>>)]_vars

C7_Witness ==
    /\ sigRunning
    /\ children[child].state = "reaped"
    /\ exitReason = "drain"

\* C8: once a signal was received, launch() is never entered again.
C8_NoLaunchAfterSignal == [][signalled => Len(children') = Len(children)]_vars

\* C9: after a signal the supervisor eventually terminates.
C9_SignalLeadsToTermination == signalled ~> (phase = "terminated")

\* C10: at most one child process runs, and a child is launched only after
\* the exit handler has observed the exit of every child before it.
C10_OneChildAtATime ==
    /\ Cardinality(Running) <= 1
    /\ \A i \in 1..(Len(children) - 1) :
           children[i].state = "reaped" /\ children[i].seen = 1

C10_Witness ==
    /\ Len(children) = 3
    /\ children[3].state = "running"
    /\ children[2].seen = 1

\* C11: whichever way the supervisor ends (exitOnError, restart guard,
\* lifetime cap, empty event loop), the 'exit' hook has detached the exit
\* listener of the current child and no child is left running without having
\* been sent the kill.
C11_ExitHookDetachesAndKills ==
    phase = "terminated"
        => /\ ~children[child].listening
           /\ \A i \in Running : children[i].killed

C11_Witness ==
    /\ phase = "terminated"
    /\ exitReason = "exitOnError"
    /\ children[child].seen = 1
    /\ ~children[child].listening

\* C12: while a window is open exactly one window-reset timer is pending, due
\* max * 1000 + 1 ms after startTime was set; startTime becomes null and
\* starts becomes 0 only together, only when that timer fires at that moment,
\* whatever launches, exits and relaunch timers came in between.
C12_WindowClosedOnlyByItsTimer ==
    /\ [](startTime # NullTime => windowTimers = <<((max * 1000) + 1) - startTime>>)
    /\ [][((startTime # NullTime /\ startTime' = NullTime) \/ starts' < starts)
            => /\ startTime = (max * 1000) + 1
               /\ startTime' = NullTime
               /\ starts' = 0
               /\ windowTimers' = <<>>]_vars

C12_Witness ==
    /\ phase = "running"
    /\ startTime = NullTime
    /\ starts = 0
    /\ windowTimers = <<>>
    /\ Len(children) = 2
    /\ monitorRuns = 1

\* C13: after a child has terminated and its exit was processed, either a
\* relaunch is pending or a child runs again, or the supervisor has ended
\* with a diagnostic: the supervisor never keeps running with no child and
\* no pending relaunch, and never ends without a diagnostic.
C13_RelaunchOrLoggedExit ==
    /\ (phase = "running"
            => (relaunchTimers # <<>>
                   \/ \E i \in 1..Len(children) : children[i].state # "reaped"))
    /\ (phase = "terminated" => logged)

\* C14: with maxRestarts negative or not configured the lifetime cap never
\* ends the supervisor: every firing of the relaunch timer, whatever the
\* number of attempts, calls launch().
C14_NoCapWhenUnlimited ==
    /\ [](~LifetimeCap => exitReason # "cap")
    /\ [][(~LifetimeCap /\ attempts' = attempts + 1)
            => (Len(children') = Len(children) + 1 /\ phase' = "running")]_vars

C14_Witness ==
    /\ ~options.maxRestarts.has
    /\ attempts = 2
    /\ Len(children) = 3

C14_WitnessNegative ==
    /\ options.maxRestarts.has
    /\ options.maxRestarts.val < 0
    /\ attempts = 2
    /\ Len(children) = 3

\* a step in which monitor() evaluated a child exit
MonitorStep == monitorRuns' = monitorRuns + 1
GuardExits == /\ phase' = "terminated"
              /\ exitReason' = "storm"
              /\ exitCode' # 0
              /\ relaunchTimers' = relaunchTimers
GuardRelaunches == /\ phase' = "running"
                   /\ Len(relaunchTimers') = Len(relaunchTimers) + 1

C15_WitnessBoundary ==
    /\ options.maxRetries = 2
    /\ starts = 2
    /\ startTime = max * 1000
    /\ relaunchTimers # <<>>

\* C16: every launch, the first and every relaunch, in a fresh window or not,
\* adds exactly one to starts, and nothing else changes starts but the window
\* reset: starts counts the launches since startTime was last set.
C16_StartsCountsEveryLaunch ==
    [][IF Len(children') = Len(children) + 1
       THEN starts' = starts + 1
       ELSE starts' = starts \/ (starts' = 0 /\ startTime' = NullTime)]_vars

C16_Witness ==
    /\ starts = 3
    /\ Len(children) = 3
    /\ startTime # NullTime

\* C17: monitor() only runs once the pid of the current child was deleted, so
\* its reset branch is never taken: attempts never decreases (is never put
\* back to 0) and wait is never put back to the base delay, it only grows by
\* the factor when the relaunch timer fires.
C17_ResetBranchIsDead ==
    /\ [][MonitorStep => ~children'[child].pid]_vars
    /\ [][attempts' >= attempts /\ (wait' = wait \/ wait' = Grow(wait))]_vars

C17_Witness ==
    /\ monitorRuns = 2
    /\ attempts = 2
    /\ wait = [n |-> 4, d |-> 1]

\* C18: a window-reset timer is pending exactly when startTime is set, never
\* more than one, and starts > 0 only while startTime is set.
C18_WindowTimerTracksStartTime ==
    /\ Len(windowTimers) <= 1
    /\ (windowTimers # <<>>) <=> (startTime # NullTime)
    /\ starts > 0 => startTime # NullTime

C18_Witness ==
    /\ phase = "running"
    /\ Len(children) = 2
    /\ children[2].state = "running"
    /\ startTime = NullTime
    /\ windowTimers = <<>>
    /\ starts = 0

\* C19: at most one relaunch timer is pending, and only while no child runs;
\* the exit of a child is handled at most once and the handled exits arm at
\* most one relaunch timer each.
C19_OneRelaunchTimer ==
    /\ Len(relaunchTimers) <= 1
    /\ relaunchTimers # <<>> => (Running = {} /\ ~children[child].pid)
    /\ \A i \in 1..Len(children) : children[i].seen <= 1
    /\ Len(delays) <= monitorRuns

C19_Witness ==
    /\ Len(relaunchTimers) = 1
    /\ Len(children) = 2
    /\ Len(delays) = 2
    /\ signalled

====
